---------------------------- MODULE Spec2Model ----------------------------
(* IRCameraController (src/camera_controller.py) as a state machine.       *)
(*                                                                         *)
(* Two kinds of process run against one controller object:                 *)
(*   - the backend's frame-arrived callbacks (_on_frame_arrived), each on   *)
(*     a thread of the backend, one program counter per thread;            *)
(*   - the control/render loop (src/main.py), one thread that calls        *)
(*     get_frame, start/stop/pause/resume, select_device, the recording    *)
(*     controls and the property setters, one call at a time.              *)
(* Python switches threads between bytecodes, so every read or write of a  *)
(* controller field that the other side can see is a step of its own.      *)
EXTENDS Integers, Sequences, FiniteSets, TLC

\* ------------------------------------------------------------------ bounds
NumThreads == 2
MaxFrames == 2
MaxBaseFps == 20
MaxDevices == 2

\* -------------------------------------------------------- program constants
QueueMaxSize == 2
MinFps == 7
DefaultBaseFps == 15

None == 0

\* IRFrameFilter and IRMappingMode members, by value (src/constants.py)
IRFrameFilter == <<"NONE", "RAW", "ILLUMINATED">>
IRMappingMode == <<"NONE", "GREEN", "HEAT", "JET">>

VARIABLES
    \* controller fields (IRCameraController.__init__)
    media_capture,         \* FALSE: None, TRUE: a MediaCapture object
    frame_reader,          \* "None" | "stopped" | "started"
    lock,                  \* None or the thread holding _lock
    running,               \* _running
    frame_queue,           \* _frame_queue, a Queue(maxsize=2) of frame ids
    last_frame,            \* _last_frame, None or a frame id
    devices,               \* _devices, a sequence of device ids
    current_device_index,
    frame_size,            \* None: the 640x480 default, d: best format of device d
    frame_filter,
    mapping_mode,
    is_illuminated,
    is_recording,
    video_writer,          \* None or the id of a VideoWriter object
    video_path,            \* None or the id of a path
    \* objects outside the controller
    writers,               \* the live VideoWriter objects, by id: [open, fps, size, path, frames]
    nextId,                \* id of the next raw frame the backend hands out
    \* callback threads
    pc, cur, rawOpen, exc,
    \* control thread
    mpc, mstack, margs, ret,
    \* history
    hist,
    \* the envelope of this run: what the backend and the control loop may do
    env

ctrl == <<media_capture, frame_reader, running, frame_queue, last_frame, devices,
          current_device_index, frame_size, frame_filter, mapping_mode,
          is_illuminated, is_recording, video_writer, video_path>>
cbvars == <<pc, cur, rawOpen, exc>>
mvars == <<mpc, mstack, margs, ret>>
vars == <<ctrl, lock, writers, nextId, cbvars, mvars, hist, env>>


\* ----------------------------------------------------------------- helpers
\* CaptureSessionState as the fields encode it: stop() clears the reader and
\* _running, start() sets _running, pause()/resume() only stop/start the reader.
State ==
    IF frame_reader = "None" THEN "Closed"
    ELSE IF ~running THEN "Ready"
    ELSE IF frame_reader = "started" THEN "Running"
    ELSE "Paused"

\* pcs of a callback that is inside _update_frame (after line 317)
UpdPcs == {"rec_check", "rec_write", "drain", "put"}
\* pcs of a callback that is inside `with self._lock`
LockedPcs == {"classify", "convert", "finally", "leave"} \cup UpdPcs

InUpdate == \E t \in DOMAIN pc : pc[t] \in UpdPcs

\* history, kept only in the runs whose envelope asks for it (env.track)
\* "overwrite": which published frames were overwritten before any get_frame
\*    unread: the latest published frame while no get_frame was called since
\*    dead:   the frames overwritten while unread
\*    expect: the frame the next get_frame is to return, set when a frame was
\*            published over an unread one and nothing touched the buffer since
\*    met:    the expected frame the latest get_frame did return
\* "quiet": the values of the latest get_frame calls (at most two) that no
\*    step of _update_frame overlapped or followed
\*    lastPublished: the latest frame put into the queue
\* "errors": swallowed: a callback's exception was caught and dropped
\* "calls":
\*    refused: start_recording returned None during the current recording
\*    badIndex: select_device refused an index since the last device was opened
\*    retried: the latest select_device opened the device a second time
\* "rejected": rejected: the frames the filter turned away
\* "session": stale: the threads running a callback of a reader that stop()
\*    has dropped since
\* "order": maxGot: the latest frame (frames are numbered as they arrive) any
\*    get_frame returned; wentBack: a get_frame returned an earlier frame
\* "append": failed: the frames whose append to the recording raised
\* Kept in every run: published (a frame was put into the queue) and the
\* flags obsDead, wrongNext, noneAfterPub, escaped, which record that a
\* get_frame or a callback did what the specification rules out
Tracks(what) == what \in env.track

\* a step of _update_frame touched the buffer
Activity(h) ==
    [h EXCEPT !.quiet = <<>>, !.gfClean = FALSE, !.expect = None, !.met = None]

\* a get_frame call begins and finds the queue empty
GetBegins(h) ==
    [h EXCEPT !.gfClean = Tracks("quiet") /\ ~InUpdate, !.unread = None]

\* a get_frame call returned v; clean: no step of _update_frame overlapped it
GotFrame(h, v, clean) ==
    [h EXCEPT !.quiet = IF ~Tracks("quiet") \/ ~clean THEN <<>>
                        ELSE IF Len(h.quiet) = 0 THEN <<v>>
                        ELSE <<h.quiet[Len(h.quiet)], v>>,
              !.gfClean = FALSE,
              !.unread = None,
              !.expect = None,
              !.met = IF h.expect # None /\ v = h.expect THEN v ELSE None,
              !.obsDead = h.obsDead \/ v \in h.dead,
              !.wrongNext = h.wrongNext \/ (h.expect # None /\ v # h.expect),
              !.noneAfterPub = h.noneAfterPub \/ (v = None /\ h.published),
              !.maxGot = IF Tracks("order") /\ v > @ THEN v ELSE @,
              !.wentBack = @ \/ (Tracks("order") /\ v # None /\ v < h.maxGot)]

\* the append of frame f raised while the stream w was there
AppendFailed(h, f, w) ==
    [h EXCEPT !.failed = IF Tracks("append") /\ w # None THEN @ \cup {f} ELSE @]

\* stop() dropped the frame reader: the callbacks it raised and that have
\* not returned are callbacks of an old reader
ReaderDropped(h) ==
    [h EXCEPT !.stale = IF Tracks("session")
                        THEN @ \cup {t \in DOMAIN pc : pc[t] # "idle"} ELSE @]

\* the callback on thread t returned
CallbackOver(h, t) == [h EXCEPT !.stale = @ \ {t}]

\* the put of frame f into the queue completed: f is published
Published(h, f) ==
    [h EXCEPT !.quiet = <<>>, !.gfClean = FALSE, !.met = None,
              !.published = TRUE,
              !.lastPublished = IF Tracks("quiet") THEN f ELSE None,
              !.dead = IF Tracks("overwrite") /\ h.unread # None
                       THEN h.dead \cup {h.unread} ELSE h.dead,
              !.expect = IF Tracks("overwrite") /\ h.unread # None THEN f ELSE None,
              !.unread = IF Tracks("overwrite") THEN f ELSE None]

\* ------------------------------------------------------------ enumerations
\* Enum.value of a member: members lists the class in definition order, and
\* the values count from 0
Value(members, m) == (CHOOSE k \in 1..Len(members) : members[k] = m) - 1

\* IRFrameFilter.next / IRMappingMode.next:
\*   members = list(self.__class__)
\*   idx = (self.value + 1) % len(members)
\*   return members[idx]
EnumNextClamped(members, m) ==
    LET idx == IF Value(members, m) + 1 < Len(members)
               THEN Value(members, m) + 1 ELSE Len(members) - 1
    IN  members[idx + 1]

EnumNext(members, m) ==
    LET idx == (Value(members, m) + 1) % Len(members)
    IN  members[idx + 1]

FilterNext(f) == EnumNext(IRFrameFilter, f)
MappingNext(m) == EnumNext(IRMappingMode, m)

\* ------------------------------------------------------ frame-arrived path
\* `with self._lock` enters only when no thread holds the lock
LockAcquirableFree(lk) == TRUE
LockAcquirable(lk) == lk = None

\* `except Exception: pass`: is the exception still pending after the handler
ExceptReraise(e) == e
ExceptPass(e) == FALSE

\* where each exit of _process_frame's try block goes: through `finally`
ExitPcEarlyReturn(path) == IF path = "filtered" THEN "leave" ELSE "finally"
ExitPcFallsThrough(path) == IF path = "filtered" THEN "convert" ELSE "finally"
ExitPc(path) == "finally"

\* Queue.empty() as the drain loop of _update_frame tests it
QueueEmptySkipDrain(q) == TRUE
QueueEmptyUnlessFull(q) == Len(q) < QueueMaxSize
QueueEmpty(q) == q = <<>>

\* the `if not self._running: return` guard of _on_frame_arrived
Discards(r) == ~r

\* IRCameraController._should_display_frame
ShouldDisplayFrameSwapped(f, lit) ==
    IF f = "NONE" THEN TRUE
    ELSE IF f = "RAW" THEN lit
    ELSE IF f = "ILLUMINATED" THEN ~lit
    ELSE TRUE

ShouldDisplayFrame(f, lit) ==
    IF f = "NONE" THEN TRUE
    ELSE IF f = "RAW" THEN ~lit
    ELSE IF f = "ILLUMINATED" THEN lit
    ELSE TRUE

\* IRCameraController._check_illumination: ir is what the video frame's
\* infrared_media_frame gives: "absent" (None), "raise", "lit" or "unlit"
CheckIllumination(old, ir) ==
    IF ir = "absent" THEN old
    ELSE IF ir = "raise" THEN FALSE
    ELSE ir = "lit"

\* the backend raises frame_arrived on one of its threads
CbDispatch(t) ==
    /\ pc[t] = "idle"
    /\ frame_reader = "started"
    /\ pc' = [pc EXCEPT ![t] = "entry"]
    /\ UNCHANGED <<ctrl, lock, writers, nextId, cur, rawOpen, exc, mvars, hist>>
    /\ UNCHANGED env

\* _on_frame_arrived, line 237
CbCheckRunning(t) ==
    /\ pc[t] = "entry"
    /\ pc' = [pc EXCEPT ![t] = IF Discards(running) THEN "idle" ELSE "lock"]
    /\ hist' = IF Discards(running) THEN CallbackOver(hist, t) ELSE hist
    /\ UNCHANGED <<ctrl, lock, writers, nextId, cur, rawOpen, exc, mvars>>
    /\ UNCHANGED env

\* _on_frame_arrived line 240 and _process_frame lines 248-250: the lock
\* is taken and the reader asked for its latest frame, which raises, gives
\* None, or gives the next frame
CbLockAndAcquire(t) ==
    /\ pc[t] = "lock"
    /\ LockAcquirable(lock)
    /\ lock' = t
    /\ \E outcome \in {"raise", "none", "frame"} :
         CASE outcome = "raise" ->
                /\ exc' = [exc EXCEPT ![t] = TRUE]
                /\ pc' = [pc EXCEPT ![t] = "leave"]
                /\ UNCHANGED <<nextId, cur, rawOpen>>
           [] outcome = "none" ->
                /\ pc' = [pc EXCEPT ![t] = "leave"]
                /\ UNCHANGED <<nextId, cur, rawOpen, exc>>
           [] outcome = "frame" ->
                /\ nextId <= env.frames
                /\ cur' = [cur EXCEPT ![t] = nextId]
                /\ nextId' = nextId + 1
                /\ rawOpen' = [rawOpen EXCEPT ![t] = TRUE]
                /\ pc' = [pc EXCEPT ![t] = "classify"]
                /\ UNCHANGED exc
    /\ UNCHANGED <<ctrl, writers, mvars, hist>>
    /\ UNCHANGED env

\* _process_frame, lines 253-262, for a media frame that has a video frame
\* or not (hasVideo) and whose infrared_media_frame gives ir
ClassifyAndFilter(t, hasVideo, ir) ==
    /\ pc[t] = "classify"
    /\ IF ~hasVideo
       THEN /\ pc' = [pc EXCEPT ![t] = ExitPc("no_video")]
            /\ UNCHANGED <<is_illuminated, hist>>
       ELSE /\ is_illuminated' = CheckIllumination(is_illuminated, ir)
            /\ pc' = [pc EXCEPT ![t] =
                       IF ShouldDisplayFrame(frame_filter, is_illuminated')
                       THEN "convert" ELSE ExitPc("filtered")]
            /\ hist' = IF Tracks("rejected")
                          /\ ~ShouldDisplayFrame(frame_filter, is_illuminated')
                       THEN [hist EXCEPT !.rejected = @ \cup {cur[t]}]
                       ELSE hist
    /\ UNCHANGED <<media_capture, frame_reader, running, frame_queue, last_frame,
                   devices, current_device_index, frame_size, frame_filter,
                   mapping_mode, is_recording, video_writer, video_path,
                   lock, writers, nextId, cur, rawOpen, exc, mvars>>
    /\ UNCHANGED env

\* what the backend may hand over as infrared_media_frame
IrFrames == {"absent", "raise", "lit", "unlit"}

CbClassifyAndFilter(t) ==
    \E hasVideo \in BOOLEAN, ir \in IrFrames : ClassifyAndFilter(t, hasVideo, ir)

\* _process_frame lines 265-269, _convert_bitmap_to_frame, and _update_frame
\* lines 314-317: the bitmap is missing, or its conversion fails (None), or
\* the colour mapping raises, or the mapped frame becomes _last_frame
CbConvertMapSave(t) ==
    /\ pc[t] = "convert"
    /\ \E bitmap \in {"none", "unconvertible", "ok"}, mapRaises \in BOOLEAN :
         IF bitmap = "none"
         THEN /\ pc' = [pc EXCEPT ![t] = ExitPc("no_bitmap")]
              /\ UNCHANGED <<last_frame, exc, hist>>
         ELSE IF bitmap = "unconvertible"
         THEN /\ pc' = [pc EXCEPT ![t] = ExitPc("convert_failed")]
              /\ UNCHANGED <<last_frame, exc, hist>>
         ELSE IF mapping_mode # "NONE" /\ mapRaises
         THEN /\ exc' = [exc EXCEPT ![t] = TRUE]
              /\ pc' = [pc EXCEPT ![t] = ExitPc("map_raised")]
              /\ UNCHANGED <<last_frame, hist>>
         ELSE /\ last_frame' = cur[t]
              /\ hist' = Activity(hist)
              /\ pc' = [pc EXCEPT ![t] = "rec_check"]
              /\ UNCHANGED exc
    /\ UNCHANGED <<media_capture, frame_reader, running, frame_queue,
                   devices, current_device_index, frame_size, frame_filter,
                   mapping_mode, is_illuminated, is_recording, video_writer,
                   video_path, lock, writers, nextId, cur, rawOpen, mvars>>
    /\ UNCHANGED env

\* _update_frame, line 320
CbRecordCheck(t) ==
    /\ pc[t] = "rec_check"
    /\ pc' = [pc EXCEPT ![t] =
                IF is_recording /\ video_writer # None THEN "rec_write" ELSE "drain"]
    /\ hist' = Activity(hist)
    /\ UNCHANGED <<ctrl, lock, writers, nextId, cur, rawOpen, exc, mvars>>
    /\ UNCHANGED env

\* _update_frame, lines 321-322: self._video_writer is read again here, and
\* cvtColor or write raises (writeRaises) or the frame is appended
RecordWriteClosesStream(t, writeRaises) ==
    /\ pc[t] = "rec_write"
    /\ IF video_writer = None \/ writeRaises
       THEN /\ exc' = [exc EXCEPT ![t] = TRUE]
            /\ pc' = [pc EXCEPT ![t] = ExitPc("record_raised")]
            /\ hist' = AppendFailed(Activity(hist), cur[t], video_writer)
            /\ writers' = IF video_writer = None THEN writers
                          ELSE [writers EXCEPT ![video_writer].open = FALSE]
       ELSE /\ writers' = [writers EXCEPT ![video_writer].frames =
                             IF writers[video_writer].open
                             THEN Append(@, cur[t]) ELSE @]
            /\ pc' = [pc EXCEPT ![t] = "drain"]
            /\ hist' = Activity(hist)
            /\ UNCHANGED exc
    /\ UNCHANGED <<ctrl, lock, nextId, cur, rawOpen, mvars>>
    /\ UNCHANGED env

RecordWrite(t, writeRaises) ==
    /\ pc[t] = "rec_write"
    /\ IF video_writer = None \/ writeRaises
       THEN /\ exc' = [exc EXCEPT ![t] = TRUE]
            /\ pc' = [pc EXCEPT ![t] = ExitPc("record_raised")]
            /\ hist' = AppendFailed(Activity(hist), cur[t], video_writer)
            /\ UNCHANGED writers
       ELSE /\ writers' = [writers EXCEPT ![video_writer].frames =
                             IF writers[video_writer].open
                             THEN Append(@, cur[t]) ELSE @]
            /\ pc' = [pc EXCEPT ![t] = "drain"]
            /\ hist' = Activity(hist)
            /\ UNCHANGED exc
    /\ UNCHANGED <<ctrl, lock, nextId, cur, rawOpen, mvars>>
    /\ UNCHANGED env

CbRecordWrite(t) == \E writeRaises \in BOOLEAN : RecordWrite(t, writeRaises)

\* _update_frame, lines 325-329, one iteration of the loop
CbDrain(t) ==
    /\ pc[t] = "drain"
    /\ IF QueueEmpty(frame_queue)
       THEN /\ pc' = [pc EXCEPT ![t] = "put"]
            /\ UNCHANGED frame_queue
       ELSE /\ frame_queue' = Tail(frame_queue)
            /\ UNCHANGED pc
    /\ hist' = Activity(hist)
    /\ UNCHANGED <<media_capture, frame_reader, running, last_frame,
                   devices, current_device_index, frame_size, frame_filter,
                   mapping_mode, is_illuminated, is_recording, video_writer,
                   video_path, lock, writers, nextId, cur, rawOpen, exc, mvars>>
    /\ UNCHANGED env

\* _update_frame, lines 331-334: put_nowait, queue.Full swallowed
CbPut(t) ==
    /\ pc[t] = "put"
    /\ IF Len(frame_queue) < QueueMaxSize
       THEN /\ frame_queue' = Append(frame_queue, cur[t])
            /\ hist' = Published(hist, cur[t])
       ELSE /\ UNCHANGED frame_queue
            /\ hist' = Activity(hist)
    /\ pc' = [pc EXCEPT ![t] = ExitPc("published")]
    /\ UNCHANGED <<media_capture, frame_reader, running, last_frame,
                   devices, current_device_index, frame_size, frame_filter,
                   mapping_mode, is_illuminated, is_recording, video_writer,
                   video_path, lock, writers, nextId, cur, rawOpen, exc, mvars>>
    /\ UNCHANGED env

\* _process_frame, lines 270-271
CbFinally(t) ==
    /\ pc[t] = "finally"
    /\ rawOpen' = [rawOpen EXCEPT ![t] = FALSE]
    /\ pc' = [pc EXCEPT ![t] = "leave"]
    /\ UNCHANGED <<ctrl, lock, writers, nextId, cur, exc, mvars, hist>>
    /\ UNCHANGED env

\* _on_frame_arrived, lines 243-244 and the exit of `with self._lock`
CbLeave(t) ==
    /\ pc[t] = "leave"
    /\ lock' = None
    /\ exc' = [exc EXCEPT ![t] = FALSE]
    /\ cur' = [cur EXCEPT ![t] = None]
    /\ hist' = [CallbackOver(hist, t)
                 EXCEPT !.escaped = hist.escaped \/ ExceptPass(exc[t]),
                        !.swallowed = hist.swallowed
                                      \/ (Tracks("errors") /\ exc[t] /\ ~ExceptPass(exc[t]))]
    /\ pc' = [pc EXCEPT ![t] = "idle"]
    /\ UNCHANGED <<ctrl, writers, nextId, rawOpen, mvars>>
    /\ UNCHANGED env

Callback(t) ==
    \/ CbDispatch(t) \/ CbCheckRunning(t) \/ CbLockAndAcquire(t)
    \/ CbClassifyAndFilter(t) \/ CbConvertMapSave(t) \/ CbRecordCheck(t)
    \/ CbRecordWrite(t) \/ CbDrain(t) \/ CbPut(t) \/ CbFinally(t) \/ CbLeave(t)


\* ------------------------------------------------------------ control thread
\* a call returns val to its caller: the control loop, or the method that
\* made the call (stop for stop_recording, select_device for stop)
Return(stk, op, val) ==
    /\ ret' = IF op \in env.returns THEN val ELSE None
    /\ IF stk = <<>>
       THEN mpc' = "idle" /\ mstack' = <<>>
       ELSE mpc' = Head(stk) /\ mstack' = Tail(stk)

NoArgs == [index |-> 0, exclusive |-> FALSE]

\* find_ir_cameras: the backend reports n infrared source groups
FindIRCameras(n) ==
    /\ mpc = "idle"
    /\ devices' = [i \in 1..n |-> i]
    /\ Return(<<>>, "find_ir_cameras", n)
    /\ UNCHANGED <<media_capture, frame_reader, running, frame_queue, last_frame,
                   current_device_index, frame_size, frame_filter, mapping_mode,
                   is_illuminated, is_recording, video_writer, video_path,
                   lock, writers, nextId, cbvars, margs, hist>>
    /\ UNCHANGED env

\* stop(), lines 204-207: clear _running, then stop_recording() if recording
StopBodySkipsRecording(stk) ==
    /\ running' = FALSE
    /\ mpc' = "st_reader"
    /\ mstack' = stk

StopBody(stk) ==
    /\ running' = FALSE
    /\ IF is_recording
       THEN mpc' = "stop_recording" /\ mstack' = <<"st_reader">> \o stk
       ELSE mpc' = "st_reader" /\ mstack' = stk

Stop ==
    /\ mpc = "idle"
    /\ StopBody(<<>>)
    /\ UNCHANGED <<media_capture, frame_reader, frame_queue, last_frame, devices,
                   current_device_index, frame_size, frame_filter, mapping_mode,
                   is_illuminated, is_recording, video_writer, video_path,
                   lock, writers, nextId, cbvars, margs, ret, hist>>
    /\ UNCHANGED env

\* stop(), lines 209-214
StopReader ==
    /\ mpc = "st_reader"
    /\ frame_reader' = "None"
    /\ media_capture' = FALSE
    /\ Return(mstack, "stop", None)
    /\ hist' = ReaderDropped(hist)
    /\ UNCHANGED <<running, frame_queue, last_frame, devices,
                   current_device_index, frame_size, frame_filter, mapping_mode,
                   is_illuminated, is_recording, video_writer, video_path,
                   lock, writers, nextId, cbvars, margs>>
    /\ UNCHANGED env

\* select_device, line 134: the index is no position of a list of n devices
IndexOutOfRangeAbove(index, n) == index >= n
IndexOutOfRange(index, n) == index < 0 \/ index >= n

\* select_device, lines 134-139
SelectDevice(index, exclusive) ==
    /\ mpc = "idle"
    /\ IF IndexOutOfRange(index, Len(devices))
       THEN /\ Return(<<>>, "select_device", 0)
            /\ hist' = [hist EXCEPT !.badIndex = Tracks("calls")]
            /\ UNCHANGED <<running, margs>>
       ELSE /\ margs' = [index |-> index, exclusive |-> exclusive]
            /\ UNCHANGED <<ret, hist>>
            /\ IF frame_reader # "None"
               THEN StopBody(<<"sel_open">>)
               ELSE mpc' = "sel_open" /\ mstack' = <<>> /\ UNCHANGED running
    /\ UNCHANGED <<media_capture, frame_reader, frame_queue, last_frame, devices,
                   current_device_index, frame_size, frame_filter, mapping_mode,
                   is_illuminated, is_recording, video_writer, video_path,
                   lock, writers, nextId, cbvars>>
    /\ UNCHANGED env

\* select_device, lines 157-162: the handler of a failed initialize tries
\* the shared mode when the caller asked for exclusive control
RetriesAlways(exclusive) == TRUE
Retries(exclusive) == exclusive

\* select_device, lines 141-189. The backend decides: whether the first
\* initialize succeeds (open1), whether the shared-mode retry does (open2),
\* and what the capture offers: no frame source, a source without formats,
\* or a source with formats. Returns 1 (True), 0 (False) or -1 (raised).
Open(open1, open2, source) ==
    /\ mpc = "sel_open"
    /\ current_device_index' = margs.index
    /\ media_capture' = TRUE
    /\ margs' = NoArgs
    /\ IF ~open1 /\ ~(Retries(margs.exclusive) /\ open2)
       THEN /\ Return(mstack, "select_device", -1)
            /\ UNCHANGED <<frame_reader, frame_size>>
       ELSE IF source = "none"
       THEN /\ Return(mstack, "select_device", 0)
            /\ UNCHANGED <<frame_reader, frame_size>>
       ELSE /\ frame_size' = IF source = "formats"
                             THEN devices[margs.index + 1] ELSE frame_size
            /\ frame_reader' = "stopped"
            /\ Return(mstack, "select_device", 1)
    /\ hist' = [hist EXCEPT !.badIndex = FALSE,
                            !.retried = Tracks("calls") /\ ~open1
                                        /\ Retries(margs.exclusive)]
    /\ UNCHANGED <<running, frame_queue, last_frame, devices, frame_filter,
                   mapping_mode, is_illuminated, is_recording, video_writer,
                   video_path, lock, writers, nextId, cbvars>>
    /\ UNCHANGED env

SelectOpen ==
    \E open1 \in BOOLEAN, open2 \in BOOLEAN, source \in env.sources :
        Open(open1, open2, source)

\* start()
Start ==
    /\ mpc = "idle"
    /\ IF frame_reader = "None"
       THEN /\ Return(<<>>, "start", 0)
            /\ UNCHANGED <<running, frame_reader>>
       ELSE /\ running' = TRUE
            /\ frame_reader' = "started"
            /\ Return(<<>>, "start", 1)
    /\ UNCHANGED <<media_capture, frame_queue, last_frame, devices,
                   current_device_index, frame_size, frame_filter, mapping_mode,
                   is_illuminated, is_recording, video_writer, video_path,
                   lock, writers, nextId, cbvars, margs, hist>>
    /\ UNCHANGED env

\* pause(): stops the reader, leaves _running as it is
Pause ==
    /\ mpc = "idle"
    /\ frame_reader' = IF frame_reader # "None" THEN "stopped" ELSE frame_reader
    /\ Return(<<>>, "pause", None)
    /\ UNCHANGED <<media_capture, running, frame_queue, last_frame, devices,
                   current_device_index, frame_size, frame_filter, mapping_mode,
                   is_illuminated, is_recording, video_writer, video_path,
                   lock, writers, nextId, cbvars, margs, hist>>
    /\ UNCHANGED env

\* resume(): starts the reader, leaves _running as it is
Resume ==
    /\ mpc = "idle"
    /\ frame_reader' = IF frame_reader # "None" THEN "started" ELSE frame_reader
    /\ Return(<<>>, "resume", None)
    /\ UNCHANGED <<media_capture, running, frame_queue, last_frame, devices,
                   current_device_index, frame_size, frame_filter, mapping_mode,
                   is_illuminated, is_recording, video_writer, video_path,
                   lock, writers, nextId, cbvars, margs, hist>>
    /\ UNCHANGED env

\* frame_filter setter
SetFrameFilterRetunes(v) ==
    /\ mpc = "idle"
    /\ frame_filter' = v
    /\ writers' = IF video_writer # None
                  THEN [writers EXCEPT ![video_writer].fps =
                          IF v = "NONE" THEN DefaultBaseFps ELSE MinFps]
                  ELSE writers
    /\ UNCHANGED <<media_capture, frame_reader, running, frame_queue, last_frame,
                   devices, current_device_index, frame_size, mapping_mode,
                   is_illuminated, is_recording, video_writer, video_path,
                   lock, nextId, cbvars, mvars, hist, env>>

SetFrameFilter(v) ==
    /\ mpc = "idle"
    /\ frame_filter' = v
    /\ UNCHANGED <<media_capture, frame_reader, running, frame_queue, last_frame,
                   devices, current_device_index, frame_size, mapping_mode,
                   is_illuminated, is_recording, video_writer, video_path,
                   lock, writers, nextId, cbvars, mvars, hist>>
    /\ UNCHANGED env

\* mapping_mode setter
SetMappingMode(v) ==
    /\ mpc = "idle"
    /\ mapping_mode' = v
    /\ UNCHANGED <<media_capture, frame_reader, running, frame_queue, last_frame,
                   devices, current_device_index, frame_size, frame_filter,
                   is_illuminated, is_recording, video_writer, video_path,
                   lock, writers, nextId, cbvars, mvars, hist>>
    /\ UNCHANGED env

\* start_recording, lines 396-398: the path of a recording, the timestamp
\* left out: path k is IR_Video_<timestamp>_<display name of filter k>.avi
VideoPath(f) == CHOOSE k \in 1..3 : IRFrameFilter[k] = f

\* start_recording, lines 391-394
ActualFpsNoFloor(f, base_fps) == IF f = "NONE" THEN base_fps ELSE base_fps \div 2
ActualFps(f, base_fps) ==
    IF f = "NONE" THEN base_fps
    ELSE IF base_fps \div 2 > MinFps THEN base_fps \div 2 ELSE MinFps

\* start_recording, line 384: `if self._is_recording: return None`
AlreadyRecordingNever(r) == FALSE
AlreadyRecording(r) == r

\* start_recording
StartRecording(base_fps) ==
    /\ mpc = "idle"
    /\ IF AlreadyRecording(is_recording)
       THEN /\ Return(<<>>, "start_recording", None)
            /\ hist' = [hist EXCEPT !.refused = Tracks("calls")]
            /\ UNCHANGED <<writers, video_path, video_writer, is_recording>>
       ELSE /\ writers' = Append(writers,
                                 [open |-> TRUE,
                                  fps |-> ActualFps(frame_filter, base_fps),
                                  size |-> frame_size,
                                  path |-> VideoPath(frame_filter),
                                  frames |-> <<>>])
            /\ video_path' = VideoPath(frame_filter)
            /\ video_writer' = Len(writers) + 1
            /\ is_recording' = TRUE
            /\ Return(<<>>, "start_recording", VideoPath(frame_filter))
            /\ UNCHANGED hist
    /\ UNCHANGED <<media_capture, frame_reader, running, frame_queue, last_frame,
                   devices, current_device_index, frame_size, frame_filter,
                   mapping_mode, is_illuminated, lock, nextId, cbvars, margs>>
    /\ UNCHANGED env

\* stop_recording, lines 411-414
StopRecordingBodyKeepsFlag(stk) ==
    IF ~is_recording
    THEN /\ Return(stk, "stop_recording", None)
         /\ UNCHANGED is_recording
    ELSE /\ mpc' = "sr_release"
         /\ mstack' = stk
         /\ UNCHANGED <<is_recording, ret>>

StopRecordingBody(stk) ==
    IF ~is_recording
    THEN /\ Return(stk, "stop_recording", None)
         /\ UNCHANGED is_recording
    ELSE /\ is_recording' = FALSE
         /\ mpc' = "sr_release"
         /\ mstack' = stk
         /\ UNCHANGED ret

\* stop_recording called by the control loop
StopRecording ==
    /\ mpc = "idle"
    /\ StopRecordingBody(<<>>)
    /\ UNCHANGED <<media_capture, frame_reader, running, frame_queue, last_frame,
                   devices, current_device_index, frame_size, frame_filter,
                   mapping_mode, is_illuminated, video_writer, video_path,
                   lock, writers, nextId, cbvars, margs, hist>>
    /\ UNCHANGED env

\* stop_recording called by stop(), line 207
StopRecordingFromStop ==
    /\ mpc = "stop_recording"
    /\ StopRecordingBody(mstack)
    /\ UNCHANGED <<media_capture, frame_reader, running, frame_queue, last_frame,
                   devices, current_device_index, frame_size, frame_filter,
                   mapping_mode, is_illuminated, video_writer, video_path,
                   lock, writers, nextId, cbvars, margs, hist>>
    /\ UNCHANGED env

\* stop_recording, lines 416-417: VideoWriter.release()
SrRelease ==
    /\ mpc = "sr_release"
    /\ writers' = IF video_writer # None
                  THEN [writers EXCEPT ![video_writer].open = FALSE]
                  ELSE writers
    /\ mpc' = "sr_clear"
    /\ UNCHANGED <<ctrl, lock, nextId, cbvars, mstack, margs, ret, hist>>
    /\ UNCHANGED env

\* stop_recording, lines 418-422; the released VideoWriter is referenced by
\* nothing from here on and leaves the heap
SrClear ==
    /\ mpc = "sr_clear"
    /\ video_writer' = None
    /\ writers' = <<>>
    /\ video_path' = None
    /\ Return(mstack, "stop_recording", video_path)
    /\ hist' = [hist EXCEPT !.refused = FALSE]
    /\ UNCHANGED <<media_capture, frame_reader, running, frame_queue, last_frame,
                   devices, current_device_index, frame_size, frame_filter,
                   mapping_mode, is_illuminated, is_recording,
                   lock, nextId, cbvars, margs>>
    /\ UNCHANGED env

\* get_frame takes no lock: its steps run whoever holds _lock
GetFrameEntersUnlocked(lk) == lk = None
GetFrameEnters(lk) == TRUE

\* what get_frame returns when the queue is empty
Fallback(last) == last

\* get_frame, line 229
GetFrameTry ==
    /\ mpc = "idle"
    /\ GetFrameEnters(lock)
    /\ IF frame_queue # <<>>
       THEN /\ frame_queue' = Tail(frame_queue)
            /\ Return(<<>>, "get_frame", Head(frame_queue))
            /\ hist' = GotFrame(hist, Head(frame_queue), ~InUpdate)
       ELSE /\ mpc' = "gf_empty"
            /\ hist' = GetBegins(hist)
            /\ UNCHANGED <<frame_queue, mstack, ret>>
    /\ UNCHANGED <<media_capture, frame_reader, running, last_frame,
                   devices, current_device_index, frame_size, frame_filter,
                   mapping_mode, is_illuminated, is_recording, video_writer,
                   video_path, lock, writers, nextId, cbvars, margs>>
    /\ UNCHANGED env

\* get_frame, lines 230-231
GetFrameFallback ==
    /\ mpc = "gf_empty"
    /\ GetFrameEnters(lock)
    /\ Return(<<>>, "get_frame", Fallback(last_frame))
    /\ hist' = GotFrame(hist, Fallback(last_frame), hist.gfClean)
    /\ UNCHANGED <<ctrl, lock, writers, nextId, cbvars, margs>>
    /\ UNCHANGED env

\* the values the control loop assigns to frame_filter and mapping_mode: the
\* application's _on_filter and _on_color assign next() of the current
\* value (env.cycle); other callers of the setters assign any member
FilterInputs == IF env.cycle THEN {FilterNext(frame_filter)} ELSE env.filters
MappingInputs == IF env.cycle THEN {MappingNext(mapping_mode)} ELSE env.mappings

Control ==
    \/ \E n \in env.discover : FindIRCameras(n)
    \/ \E i \in env.index, x \in env.exclusive : SelectDevice(i, x)
    \/ SelectOpen
    \/ Start \/ Stop \/ StopReader \/ Pause \/ Resume
    \/ \E v \in FilterInputs : SetFrameFilter(v)
    \/ \E v \in MappingInputs : SetMappingMode(v)
    \/ \E b \in env.base_fps : StartRecording(b)
    \/ StopRecording \/ StopRecordingFromStop \/ SrRelease \/ SrClear
    \/ GetFrameTry \/ GetFrameFallback

\* ------------------------------------------------------------ specification
InitIn(E) ==
    /\ env = E
    /\ media_capture = FALSE
    /\ frame_reader = "None"
    /\ lock = None
    /\ running = FALSE
    /\ frame_queue = <<>>
    /\ last_frame = None
    /\ devices = <<>>
    /\ current_device_index = 0
    /\ frame_size = None
    /\ frame_filter = "NONE"
    /\ mapping_mode = "NONE"
    /\ is_illuminated = FALSE
    /\ is_recording = FALSE
    /\ video_writer = None
    /\ video_path = None
    /\ writers = <<>>
    /\ nextId = 1
    /\ pc = [t \in E.threads |-> "idle"]
    /\ cur = [t \in E.threads |-> None]
    /\ rawOpen = [t \in E.threads |-> FALSE]
    /\ exc = [t \in E.threads |-> FALSE]
    /\ mpc = "idle"
    /\ mstack = <<>>
    /\ margs = NoArgs
    /\ ret = None
    /\ hist = [published |-> FALSE, lastPublished |-> None,
               unread |-> None, dead |-> {}, expect |-> None, met |-> None,
               quiet |-> <<>>, gfClean |-> FALSE,
               obsDead |-> FALSE, wrongNext |-> FALSE, noneAfterPub |-> FALSE,
               escaped |-> FALSE, swallowed |-> FALSE,
               refused |-> FALSE, badIndex |-> FALSE, rejected |-> {},
               failed |-> {}, retried |-> FALSE, stale |-> {},
               maxGot |-> None, wentBack |-> FALSE]

Next ==
    \/ \E t \in env.threads : CbDispatch(t)
    \/ \E t \in env.threads : CbCheckRunning(t)
    \/ \E t \in env.threads : CbLockAndAcquire(t)
    \/ \E t \in env.threads : CbClassifyAndFilter(t)
    \/ \E t \in env.threads : CbConvertMapSave(t)
    \/ \E t \in env.threads : CbRecordCheck(t)
    \/ \E t \in env.threads : CbRecordWrite(t)
    \/ \E t \in env.threads : CbDrain(t)
    \/ \E t \in env.threads : CbPut(t)
    \/ \E t \in env.threads : CbFinally(t)
    \/ \E t \in env.threads : CbLeave(t)
    \/ Control

\* the frame pipeline: the backend's threads deliver MaxFrames frames of one
\* device, filter and mapping stay NONE (a filtered or unmappable frame leaves
\* the same way a frame without bitmap does)
FrameEnv ==
    [threads |-> 1..NumThreads, frames |-> MaxFrames,
     discover |-> {1}, index |-> {0}, exclusive |-> {FALSE},
     filters |-> {"NONE"}, mappings |-> {"NONE"},
     base_fps |-> {DefaultBaseFps}, sources |-> {"formats"},
     returns |-> {}, track |-> {}, cycle |-> FALSE]

Init == InitIn(FrameEnv)
Spec == Init /\ [][Next]_vars

\* the frame pipeline, with the history of overwritten frames
InitOverwrite == InitIn([FrameEnv EXCEPT !.threads = {1, 2}, !.track = {"overwrite"}])
SpecOverwrite == InitOverwrite /\ [][Next]_vars

\* the frame pipeline, with the history of undisturbed get_frame calls
InitQuiet == InitIn([FrameEnv EXCEPT !.threads = {1, 2}, !.track = {"quiet"}])
SpecQuiet == InitQuiet /\ [][Next]_vars

\* every exit of the frame-arrived handler: one backend thread, the filter
\* and the mapping switched by the control loop
PathEnv ==
    [FrameEnv EXCEPT !.threads = {1},
                     !.filters = {"NONE", "RAW"}, !.mappings = {"NONE", "GREEN"},
                     !.track = {"errors"}]
InitPaths == InitIn(PathEnv)
SpecPaths == InitPaths /\ [][Next]_vars

\* the recording controls: every filter, two base rates, the value
\* stop_recording returns kept in ret
RecordingEnv ==
    [FrameEnv EXCEPT !.threads = {1},
                     !.filters = {"NONE", "RAW", "ILLUMINATED"},
                     !.base_fps = {10, DefaultBaseFps},
                     !.returns = {"stop_recording"}]
InitRecording == InitIn(RecordingEnv)
SpecRecording == InitRecording /\ [][Next]_vars

\* the frame-rate law of start_recording: every base rate up to MaxBaseFps
\* under every filter, one backend thread and one frame
FpsEnv ==
    [FrameEnv EXCEPT !.threads = {1}, !.frames = 1,
                     !.filters = {"NONE", "RAW", "ILLUMINATED"},
                     !.base_fps = 1..MaxBaseFps]
InitFps == InitIn(FpsEnv)
SpecFps == InitFps /\ [][Next]_vars

\* start_recording during a recording: two filters and two base rates, so
\* that a second stream would differ from the first, the value
\* start_recording returns kept in ret and its refusals in hist
RefuseEnv ==
    [FrameEnv EXCEPT !.threads = {1}, !.frames = 1,
                     !.filters = {"NONE", "RAW"},
                     !.base_fps = {10, DefaultBaseFps},
                     !.returns = {"start_recording"},
                     !.track = {"calls"}]
InitRefuse == InitIn(RefuseEnv)
SpecRefuse == InitRefuse /\ [][Next]_vars

\* device selection: up to MaxDevices devices discovered, every index from
\* -1 to MaxDevices asked for, the value select_device returns kept in ret
\* and its refusals in hist
DeviceEnv ==
    [FrameEnv EXCEPT !.threads = {1}, !.frames = 1,
                     !.discover = 0..MaxDevices,
                     !.index = -1..MaxDevices,
                     !.returns = {"select_device"},
                     !.track = {"calls"}]
InitDevice == InitIn(DeviceEnv)
SpecDevice == InitDevice /\ [][Next]_vars

\* classification and filtering: one backend thread, every filter, the
\* frames the filter turned away kept in hist
FilterEnv ==
    [FrameEnv EXCEPT !.threads = {1},
                     !.filters = {"NONE", "RAW", "ILLUMINATED"},
                     !.track = {"rejected"}]
InitFilter == InitIn(FilterEnv)
SpecFilter == InitFilter /\ [][Next]_vars

\* the mode buttons: filter and mapping only change by next(), one backend
\* thread and one frame
ModeEnv == [FrameEnv EXCEPT !.threads = {1}, !.frames = 1, !.cycle = TRUE]
InitModes == InitIn(ModeEnv)
SpecModes == InitModes /\ [][Next]_vars

\* recording with append failures: one backend thread, get_frame's value kept
AppendEnv ==
    [FrameEnv EXCEPT !.threads = {1}, !.returns = {"get_frame"},
                     !.track = {"append"}]

InitAppend == InitIn(AppendEnv)
SpecAppend == InitAppend /\ [][Next]_vars

\* opening devices: MaxDevices devices, either sharing mode, and a backend
\* that offers no frame source, a source without formats, or one with formats
OpenEnv ==
    [FrameEnv EXCEPT !.threads = {1}, !.frames = 1,
                     !.discover = {MaxDevices}, !.index = 0..(MaxDevices - 1),
                     !.exclusive = BOOLEAN,
                     !.sources = {"none", "noformats", "formats"},
                     !.returns = {"select_device"}, !.track = {"calls"}]

InitOpen == InitIn(OpenEnv)
SpecOpen == InitOpen /\ [][Next]_vars

\* switching between MaxDevices devices while frames arrive
SwitchEnv ==
    [FrameEnv EXCEPT !.threads = {1},
                     !.discover = {MaxDevices}, !.index = 0..(MaxDevices - 1),
                     !.track = {"session"}]

InitSwitch == InitIn(SwitchEnv)
SpecSwitch == InitSwitch /\ [][Next]_vars

\* the frame pipeline on one backend thread, with the order of the frames
\* get_frame returned
OrderEnv == [FrameEnv EXCEPT !.threads = {1}, !.track = {"order"}]

InitOrder == InitIn(OrderEnv)
SpecOrder == InitOrder /\ [][Next]_vars

\* ------------------------------------------------------------------ claims
\* C1: when frame A and then frame B are put into the buffer with no
\* get_frame between the two, the next get_frame returns B, and no get_frame
\* ever returns the overwritten A.
C1_LatestReplacesUnread == ~hist.obsDead /\ ~hist.wrongNext

\* a get_frame returned the frame that had overwritten an unread one
C1_Witness == hist.met # None /\ hist.met \notin hist.dead /\ hist.dead # {}

\* C2: once a frame has been published every get_frame returns a frame, and
\* two consecutive get_frame calls with no publication (and no step of
\* _update_frame) between them both return the last published frame.
C2_ConsecutiveGetsAgree ==
    hist.published =>
        /\ ~hist.noneAfterPub
        /\ Len(hist.quiet) = 2 =>
              /\ hist.quiet[1] = hist.quiet[2]
              /\ hist.quiet[2] = hist.lastPublished

\* C3: the frame queue never holds more than one frame.
C3_QueueHoldsAtMostOne == Len(frame_queue) <= 1

\* a frame was put while the one before it was still unread, and the queue
\* holds one frame
C3_Witness == hist.dead # {} /\ Len(frame_queue) = 1 /\ frame_queue[1] \notin hist.dead

\* C4: get_frame never waits: each of its steps can be taken whenever the
\* control loop has reached it, also while a callback holds the lock; and it
\* returns None only while nothing was ever published.
C4_GetFrameNeverWaits ==
    /\ mpc = "idle" => ENABLED GetFrameTry
    /\ mpc = "gf_empty" => ENABLED GetFrameFallback
    /\ ~hist.noneAfterPub

\* get_frame is between its two steps while a callback holds the lock inside
\* _update_frame
C4_Witness ==
    /\ mpc = "gf_empty"
    /\ \E t \in DOMAIN pc : lock = t /\ pc[t] \in UpdPcs
    /\ hist.published

\* C5: at most one callback is between taking the lock and leaving it, that
\* is in the section classify, filter, convert, map, publish, record.
C5_OneCallbackInSection ==
    /\ Cardinality({t \in DOMAIN pc : pc[t] \in LockedPcs}) <= 1
    /\ \A t \in DOMAIN pc : pc[t] \in LockedPcs => lock = t

\* one callback updates the buffer while another one waits for the lock
C5_Witness ==
    \E t, u \in DOMAIN pc : t # u /\ pc[t] \in UpdPcs /\ pc[u] = "lock"

\* C6: stop() and stop_recording() wait for the lock of a callback in flight
\* before they close the recording stream, so a callback that is about to
\* write (line 322) finds the stream it tested at line 320: set and open.
C6_NoWriteToClosedStream ==
    \A t \in DOMAIN pc :
        pc[t] = "rec_write" => video_writer # None /\ writers[video_writer].open

\* C7: a frame-arrived callback that runs its entry check while the
\* controller is not Running (Closed, Ready, or Paused) returns at once: it
\* goes on to no later step and touches nothing.
C7_DiscardsUnlessRunning ==
    [][\A t \in DOMAIN pc :
          (State # "Running" /\ CbCheckRunning(t)) => pc'[t] = "idle"]_vars

\* C8: the raw frame a callback acquired is released on every way out of
\* the handler: no callback holds one outside lines 248-271.
C8_RawFrameReleased ==
    \A t \in DOMAIN pc :
        /\ pc[t] \in {"idle", "entry", "lock", "leave"} => ~rawOpen[t]
        /\ rawOpen[t] => cur[t] # None

\* a callback that acquired a frame and then met an error leaves with the
\* frame released
C8_Witness ==
    \E t \in DOMAIN pc :
        pc[t] = "leave" /\ cur[t] # None /\ exc[t] /\ ~rawOpen[t]

\* C9: an error raised while a frame is processed never leaves the
\* callback: each step of a callback keeps _running and the reader as they
\* are, no exception escapes, and the lock is free again when it returns.
C9_ErrorsStayInside ==
    [][\A t \in DOMAIN pc :
          Callback(t) =>
              /\ running' = running
              /\ frame_reader' = frame_reader
              /\ ~hist'.escaped
              /\ pc'[t] = "idle" => lock' # t]_vars

\* after a swallowed error the controller is Running and a later frame is
\* in _update_frame
C9_Witness ==
    /\ hist.swallowed
    /\ State = "Running"
    /\ \E t \in DOMAIN pc : pc[t] = "put"

\* C10: stop_recording called while not recording returns None and changes
\* nothing; called while recording it closes the stream, clears writer and
\* path, ends Idle, and returns the path the stream was opened with.
C10_StopRecording ==
    [][/\ (~is_recording /\ StopRecording) =>
              ret' = None /\ UNCHANGED <<ctrl, lock, writers>>
       /\ SrClear =>
              /\ video_writer # None
              /\ ~writers[video_writer].open
              /\ ret' = writers[video_writer].path
              /\ ret' # None
              /\ ~is_recording'
              /\ video_writer' = None
              /\ video_path' = None]_vars

\* stop_recording returned the path of a recording and left the controller
\* Idle
C10_Witness ==
    /\ mpc = "idle"
    /\ ret # None
    /\ ~is_recording
    /\ video_writer = None
    /\ video_path = None

\* C11: for every base_fps of the range, start_recording opens the stream
\* at base_fps when the filter is NONE, and at the larger of base_fps // 2
\* and 7 when the filter is RAW or ILLUMINATED; 15 gives 15 and 7.
C11_FrameRateLaw ==
    [][\A b \in env.base_fps :
          (~is_recording /\ StartRecording(b)) =>
              LET fps == writers'[video_writer'].fps
                  half == b \div 2
              IN  /\ frame_filter = "NONE" => fps = b
                  /\ frame_filter # "NONE" /\ half >= 7 => fps = half
                  /\ frame_filter # "NONE" /\ half < 7 => fps = 7
                  /\ b = 15 => fps = IF frame_filter = "NONE" THEN 15 ELSE 7]_vars

\* a recording started under RAW or ILLUMINATED runs at a halved rate above
\* the floor
C11_Witness ==
    /\ is_recording
    /\ video_writer # None
    /\ writers[video_writer].path # VideoPath("NONE")
    /\ writers[video_writer].fps = MaxBaseFps \div 2
    /\ writers[video_writer].fps > MinFps

\* C12: the rate of a recording is fixed from start_recording to the
\* matching stop_recording: no step changes the rate of the open stream, and
\* the rate stays the one the filter at the start gave (the path names that
\* filter), whatever filter, mapping or frame came since.
C12_RateFixedWhileRecording ==
    [][video_writer' # None =>
          LET w == writers'[video_writer']
          IN  /\ w.fps = IF w.path = VideoPath("NONE")
                         THEN DefaultBaseFps ELSE MinFps
              /\ video_writer # None => w.fps = writers[video_writer].fps]_vars

\* a recording started under NONE still runs at the base rate after the
\* filter and the mapping were changed and a frame was appended
C12_Witness ==
    /\ is_recording
    /\ video_writer # None
    /\ writers[video_writer].path = VideoPath("NONE")
    /\ writers[video_writer].fps = DefaultBaseFps
    /\ writers[video_writer].frames # <<>>
    /\ frame_filter = "RAW"
    /\ mapping_mode = "GREEN"

\* C13: start_recording called while a recording is active returns None
\* and leaves the recording as it is: the same stream, open, with its path
\* and rate, the same _video_path, still recording; no second stream exists.
C13_StartWhileRecording ==
    [][\A b \in env.base_fps :
          (is_recording /\ StartRecording(b)) =>
              /\ ret' = None
              /\ writers' = writers
              /\ Len(writers') <= 1
              /\ video_writer' = video_writer
              /\ video_path' = video_path
              /\ is_recording']_vars

\* start_recording was refused during the recording that is still active,
\* under a filter that would have given another path
C13_Witness ==
    /\ hist.refused
    /\ ret = None
    /\ is_recording
    /\ Len(writers) = 1
    /\ video_writer = 1
    /\ writers[1].open
    /\ video_path = writers[1].path
    /\ video_path # VideoPath(frame_filter)

\* C14: stop() finalizes a recording before it releases the capture session:
\* when it reaches the reader (line 209) no recording is active and no stream
\* is left, and when it returns the flag is false, the writer cleared, the
\* reader and the capture handle None; the same when select_device calls it.
C14_StopFinalizesRecording ==
    [][StopReader =>
          /\ ~is_recording /\ video_writer = None /\ writers = <<>>
          /\ ~is_recording' /\ video_writer' = None /\ writers' = <<>>
          /\ frame_reader' = "None"
          /\ ~media_capture'
          /\ ~running']_vars

\* stop(), called by select_device during a recording, has just got the
\* path from stop_recording and still holds the reader
C14_Witness ==
    /\ mpc = "st_reader"
    /\ mstack = <<"sel_open">>
    /\ ret # None
    /\ ~is_recording
    /\ video_writer = None
    /\ writers = <<>>
    /\ frame_reader # "None"

\* C15: select_device with an index below 0 or not below the number of
\* discovered devices returns False and changes nothing: capture handle,
\* reader, running flag, recording and current_device_index stay; and when
\* select_device returns True, current_device_index is the index asked for.
C15_SelectDeviceIndex ==
    [][/\ \A i \in env.index, x \in env.exclusive :
             (SelectDevice(i, x) /\ (i < 0 \/ i >= Len(devices))) =>
                 /\ ret' = 0
                 /\ mpc' = "idle"
                 /\ UNCHANGED <<ctrl, lock, writers>>
       /\ (SelectOpen /\ ret' = 1) =>
             /\ current_device_index' = margs.index
             /\ current_device_index' \in 0..(Len(devices) - 1)
             /\ frame_reader' # "None"]_vars

\* select_device refused an index while the second device was streaming and
\* recording: the session and current_device_index are as they were
C15_Witness ==
    /\ hist.badIndex
    /\ mpc = "idle"
    /\ ret = 0
    /\ current_device_index = 1
    /\ media_capture
    /\ frame_reader = "started"
    /\ running
    /\ is_recording

\* C16: the filter decision for all six pairs of filter and illuminated
\* flag: NONE forwards always, RAW forwards iff not illuminated, ILLUMINATED
\* forwards iff illuminated; and a callback goes on to the conversion exactly
\* when the table forwards the pair it classified.
C16_FilterTruthTable ==
    [][/\ \A lit \in BOOLEAN :
             /\ ShouldDisplayFrame("NONE", lit)
             /\ ShouldDisplayFrame("RAW", lit) <=> ~lit
             /\ ShouldDisplayFrame("ILLUMINATED", lit) <=> lit
       /\ \A t \in DOMAIN pc, ir \in IrFrames :
             ClassifyAndFilter(t, TRUE, ir) =>
                 (pc'[t] = "convert" <=>
                     \/ frame_filter = "NONE"
                     \/ frame_filter = "RAW" /\ ~is_illuminated'
                     \/ frame_filter = "ILLUMINATED" /\ is_illuminated')]_vars

\* a frame classified as not illuminated was turned away under ILLUMINATED
C16_Witness ==
    \E t \in DOMAIN pc :
        /\ pc[t] = "finally"
        /\ cur[t] \in hist.rejected
        /\ frame_filter = "ILLUMINATED"
        /\ ~is_illuminated

\* C17: next() cycles NONE -> RAW -> ILLUMINATED -> NONE on the filter and
\* NONE -> GREEN -> HEAT -> JET -> NONE on the mapping: from any mode, as many
\* next() as there are modes lead back to it after every other mode was
\* visited once; and each press of a mode button moves one place on.
C17_NextCycles ==
    /\ FilterNext("NONE") = "RAW"
    /\ FilterNext("RAW") = "ILLUMINATED"
    /\ FilterNext("ILLUMINATED") = "NONE"
    /\ MappingNext("NONE") = "GREEN"
    /\ MappingNext("GREEN") = "HEAT"
    /\ MappingNext("HEAT") = "JET"
    /\ MappingNext("JET") = "NONE"
    /\ \A k \in 1..3 :
          LET f == IRFrameFilter[k]
          IN  /\ FilterNext(FilterNext(FilterNext(f))) = f
              /\ Cardinality({f, FilterNext(f), FilterNext(FilterNext(f))}) = 3
    /\ \A k \in 1..4 :
          LET m == IRMappingMode[k]
              m1 == MappingNext(m)
              m2 == MappingNext(m1)
              m3 == MappingNext(m2)
          IN  /\ MappingNext(m3) = m
              /\ Cardinality({m, m1, m2, m3}) = 4
    /\ [][/\ frame_filter' # frame_filter =>
             Value(IRFrameFilter, frame_filter')
                 = (Value(IRFrameFilter, frame_filter) + 1) % 3
       /\ mapping_mode' # mapping_mode =>
             Value(IRMappingMode, mapping_mode')
                 = (Value(IRMappingMode, mapping_mode) + 1) % 4]_vars

\* the filter button was pressed twice and the mapping button three times:
\* both are at the last mode of their cycle
C17_Witness == frame_filter = "ILLUMINATED" /\ mapping_mode = "JET"

\* C18: when the frame has no infrared sub-frame, or reading it fails, the
\* frame is classified as not illuminated whatever the frame before was, and
\* the filter decides on not illuminated: NONE and RAW forward the frame,
\* ILLUMINATED turns it away.
C18_UnavailableIsNotIlluminated ==
    [][\A t \in DOMAIN pc, ir \in {"absent", "raise"} :
          ClassifyAndFilter(t, TRUE, ir) =>
              /\ ~is_illuminated'
              /\ pc'[t] = "convert" <=> frame_filter \in {"NONE", "RAW"}]_vars

\* C19: a frame the filter turned away is discarded before the pixel
\* conversion and leaves no trace: its callback is on the way out, it is not
\* in the frame queue, it is not _last_frame (what get_frame falls back to
\* and take_photo saves), and it is in no recording stream.
C19_RejectedFrameLeavesNoTrace ==
    \A f \in hist.rejected :
        /\ \A t \in DOMAIN pc : cur[t] = f => pc[t] \in {"finally", "leave"}
        /\ \A k \in 1..Len(frame_queue) : frame_queue[k] # f
        /\ last_frame # f
        /\ \A w \in 1..Len(writers) :
              \A k \in 1..Len(writers[w].frames) : writers[w].frames[k] # f

\* the first frame was turned away during a recording; the second one went
\* through to the queue and the stream
C19_Witness ==
    /\ 1 \in hist.rejected
    /\ frame_queue = <<2>>
    /\ last_frame = 2
    /\ is_recording
    /\ video_writer # None
    /\ writers[video_writer].frames = <<2>>

\* C20: while recording, every frame that is published has been appended to
\* the recording stream exactly once, and the stream holds its frames in
\* arrival order; while not recording no frame is appended to any stream.
C20_AppendedOnceInOrder ==
    [][/\ \A t \in DOMAIN pc :
             (CbPut(t) /\ is_recording /\ frame_queue' # frame_queue) =>
                 /\ video_writer # None
                 /\ Cardinality({k \in 1..Len(writers[video_writer].frames) :
                                   writers[video_writer].frames[k] = cur[t]}) = 1
       /\ \A w \in 1..Len(writers') :
             \A j, k \in 1..Len(writers'[w].frames) :
                 j < k => writers'[w].frames[j] < writers'[w].frames[k]
       /\ \A t \in DOMAIN pc :
             (CbRecordWrite(t) /\ writers' # writers) => is_recording]_vars

\* C21: a failure while appending a frame to the recording neither stops the
\* session nor the preview. The step in which the append raises leaves
\* is_recording, the stream, the writers, _running, the reader and the queue
\* as they were, with the frame as _last_frame; the rest of that callback
\* changes none of them; a later append to the open stream still adds its
\* frame; and a get_frame that finds the queue empty while the failed frame
\* is the last frame returns it.
C21_AppendFailureKeepsSession ==
    [][/\ \A t \in env.threads :
            RecordWrite(t, TRUE) /\ video_writer # None
            => /\ UNCHANGED <<is_recording, video_writer, writers, running,
                              frame_reader, frame_queue, last_frame>>
               /\ last_frame = cur[t]
       /\ \A t \in env.threads :
            exc[t] /\ Callback(t)
            => UNCHANGED <<is_recording, video_writer, writers, running,
                           frame_reader, last_frame>>
       /\ \A t \in env.threads :
            /\ RecordWrite(t, FALSE)
            /\ hist.failed # {}
            /\ video_writer # None
            /\ writers[video_writer].open
            => writers'[video_writer].frames
                 = Append(writers[video_writer].frames, cur[t])
       /\ GetFrameFallback /\ last_frame \in hist.failed
            => ret' = last_frame
      ]_vars

\* the append of frame 1 failed, get_frame returned frame 1, and frame 2 was
\* appended to the same recording, which is still going on
C21_Witness ==
    /\ 1 \in hist.failed
    /\ ret = 1
    /\ is_recording
    /\ video_writer # None
    /\ writers[video_writer].open
    /\ writers[video_writer].frames = <<2>>

\* C22: when the first open of select_device is rejected, a call with
\* exclusive = true opens once more, and if that second open succeeds the
\* call goes on as after a successful open (it returns True and has a reader
\* whenever the device has a frame source), while a rejected second open is
\* raised; a call with exclusive = false opens no second time, raises the
\* failure to its caller and creates no reader.
C22_ExclusiveFallsBackToShared ==
    [][\A open2 \in BOOLEAN, source \in env.sources :
         Open(FALSE, open2, source)
         => IF margs.exclusive
            THEN /\ hist'.retried
                 /\ open2 => /\ ret' = IF source = "none" THEN 0 ELSE 1
                             /\ source # "none" => frame_reader' = "stopped"
                 /\ ~open2 => ret' = -1 /\ frame_reader' = "None"
            ELSE /\ ~hist'.retried
                 /\ ret' = -1
                 /\ frame_reader' = "None"
      ]_vars

\* an exclusive select_device whose first open failed returned True with a
\* reader
C22_Witness ==
    /\ hist.retried
    /\ ret = 1
    /\ frame_reader = "stopped"
    /\ mpc = "idle"

\* C23: select_device on a device whose frame source offers no capture
\* format fails: it does not return True, creates no frame reader, and does
\* not keep the frame size it had as the size of a new session.
C23_NoFormatFails ==
    [][\A open1 \in BOOLEAN, open2 \in BOOLEAN :
         Open(open1, open2, "noformats")
         => /\ ret' # 1
            /\ frame_reader' = "None"
      ]_vars

\* C26: current_device_index changes only in a select_device call that
\* succeeds: a call whose open raises, or that finds no frame source and
\* returns False, leaves it at the device selected before.
C26_IndexChangesOnlyOnSuccess ==
    [][current_device_index' # current_device_index
       => SelectOpen /\ ret' = 1
      ]_vars

\* C24: after a device switch has started the new session, no frame of the
\* old reader is processed, published or recorded: while the controller is
\* Running, a callback raised by a reader that stop() has dropped acquires
\* no frame and changes neither _last_frame, the queue nor a recording.
C24_OldReaderQuiesced ==
    [][\A t \in hist.stale :
         State = "Running" /\ Callback(t)
         => UNCHANGED <<nextId, last_frame, frame_queue, writers>>
      ]_vars

\* C25: get_frame never returns a frame that arrived (and so was published)
\* before a frame an earlier get_frame returned.
C25_GetFrameNeverGoesBack == ~hist.wentBack

=============================================================================
